---- MODULE Spec2Model ----
(***************************************************************************)
(* A model of the variant matching and harmonization engine of             *)
(* gwas-summary-stats (src/src/main.rs): the join against the dbSNP        *)
(* catalog (dbsnp_matching), the concurrent samtools lookup               *)
(* (ref_alt_check) and the allele flip both of them apply.                 *)
(*                                                                         *)
(* Tables are [header, data]; a row is [src, c]: c is the sequence of      *)
(* cells (text), src is the 1-based position of the input row the row was  *)
(* made from (a history field: the program does not store it).             *)
(* Sequences are 1-based here and 0-based in the source.                   *)
(***************************************************************************)
EXTENDS Integers, Sequences, FiniteSets, TLC

VARIABLES
    pc,                 \* where main is: "start", "matched", "written", "lookup", "joined", "checked", "done", "panic"
    err,                \* why the run panicked ("" while it has not)
    raw_data,           \* the table preformat returned
    hg19, hg38,         \* the records of hg19.bed and hg38.bed, as liftover left them
    dbsnp,              \* the reference catalog
    raw_data_merged,    \* dbsnp_matching's first result: the matched table
    raw_data_missing,   \* dbsnp_matching's second result: the missing table
    num_threads,        \* ref_alt_check: number of worker threads
    chunk,              \* ref_alt_check: the shared AtomicUsize
    worker,             \* ref_alt_check: per thread, [at, b]: its place in the loop and its batch
    nucleotides,        \* ref_alt_check: the results buffer behind the mutex
    poisoned,           \* ref_alt_check: a thread panicked while it held the mutex
    invoked,            \* history: per batch index, the samtools invocations made for it, each with the slots it wrote
    pairs,              \* ref_alt_check: the zip of the missing rows with the nucleotides
    final_data,         \* the table ref_alt_check returned
    written,            \* the output files written so far
    row, row0, engine, flips   \* the flip applied on its own: the row, the row at the start, whose flip, how often

vars == <<pc, err, raw_data, hg19, hg38, dbsnp, raw_data_merged, raw_data_missing,
          num_threads, chunk, worker, nucleotides, poisoned, invoked, pairs,
          final_data, written, row, row0, engine, flips>>

(***************************************************************************)
(* f64, scaled down: a significand of PrecBits bits (53 in the source)     *)
(* over a smallest unit of 2^-FracBits, round to nearest, ties to even.    *)
(* A value is <<sign, magnitude in units>>; decimal text is written in     *)
(* units too ("16" is 1.0 when FracBits = 4).                              *)
(***************************************************************************)
PrecBits == 3
FracBits == 4

RECURSIVE Pow2(_)
Pow2(n) == IF n <= 0 THEN 1 ELSE 2 * Pow2(n - 1)

RECURSIVE BitLen(_)
BitLen(k) == IF k <= 0 THEN 0 ELSE 1 + BitLen(k \div 2)

One == Pow2(FracBits)

MaxMag == 4 * One

\* The nearest magnitude with at most PrecBits significant bits, ties to even.
RoundMag(k) ==
    IF BitLen(k) <= PrecBits THEN k
    ELSE LET ulp == Pow2(BitLen(k) - PrecBits)
             q == k \div ulp
             rem == k % ulp
             up == 2 * rem > ulp \/ (2 * rem = ulp /\ q % 2 = 1)
         IN  (IF up THEN q + 1 ELSE q) * ulp

NaN == <<0, 0>>

ParseErr == <<2, 0>>

F64Values ==
    {NaN} \cup { <<s, m>> : s \in {1, -1}, m \in {k \in 0..MaxMag : RoundMag(k) = k} }

\* f64's Display: the shortest text that parses back to the value.
to_string(v) ==
    IF v = NaN THEN "NaN"
    ELSE (IF v[1] < 0 THEN "-" ELSE "") \o ToString(v[2])

\* The texts str::parse::<f64> reads as v: its Display form, and other spellings.
Spellings(v) ==
    IF v = NaN THEN {"NaN", "nan"}
    ELSE {to_string(v)} \cup (IF v[1] > 0 THEN {"+" \o to_string(v)} ELSE {})

F64Text == [v \in F64Values |-> Spellings(v)]

\* str::parse::<f64>: Ok(v), or Err (ParseErr) for text that is no number ("NA").
parse_f64(s) ==
    IF \E v \in F64Values : s \in F64Text[v]
    THEN CHOOSE v \in F64Values : s \in F64Text[v]
    ELSE ParseErr

\* -es
f64_neg(v) == IF v = NaN THEN NaN ELSE <<-v[1], v[2]>>

\* 1.0 - e
f64_one_minus(v) ==
    IF v = NaN THEN NaN
    ELSE LET d == One - v[1] * v[2]
         IN  IF d < 0 THEN <<-1, RoundMag(-d)>> ELSE <<1, RoundMag(d)>>

(***************************************************************************)
(* The tabular store.                                                      *)
(***************************************************************************)
Min2(a, b) == IF a < b THEN a ELSE b

Max2(a, b) == IF a > b THEN a ELSE b

InSeq(x, s) == \E i \in DOMAIN s : s[i] = x

\* Iterator::position: the first place of x in s, 0 for None.
position(s, x) ==
    IF InSeq(x, s)
    THEN CHOOSE i \in DOMAIN s : s[i] = x /\ \A j \in 1..(i - 1) : s[j] # x
    ELSE 0

\* Data::idx_opt: the first column named key, 0 for None (Data::idx unwraps it).
idx_opt(header, key) == position(header, key)

Cells(data) == [i \in DOMAIN data |-> data[i].c]

Srcs(data) == {data[i].src : i \in DOMAIN data}

RECURSIVE SeqFilter(_, _, _)
\* The subsequence of s at the places k in keep.
SeqFilter(s, keep, k) ==
    IF k > Len(s) THEN << >>
    ELSE (IF k \in keep THEN <<s[k]>> ELSE << >>) \o SeqFilter(s, keep, k + 1)

RECURSIVE SeqMapIdx(_, _, _)
\* The cells of r at the places listed in order, from the k-th on.
SeqMapIdx(r, order, k) ==
    IF k > Len(order) THEN << >>
    ELSE <<r[order[k]]>> \o SeqMapIdx(r, order, k + 1)

\* The positional reorder of one row (dbsnp_matching, the first reorder): the
\* cells whose place is in new_order, sorted by the first position of their
\* place in new_order.
reorder_by_idx(r, new_order) ==
    LET keep == {k \in DOMAIN new_order :
                    position(new_order, new_order[k]) = k /\ new_order[k] \in DOMAIN r}
    IN  SeqMapIdx(r, SeqFilter(new_order, keep, 1), 1)

RECURSIVE reorder_from(_, _, _, _)
reorder_from(header, r, new_order, k) ==
    IF k > Len(new_order) THEN << >>
    ELSE (IF position(new_order, new_order[k]) = k
          THEN SeqFilter(r, {i \in DOMAIN r : header[i] = new_order[k]}, 1)
          ELSE << >>)
         \o reorder_from(header, r, new_order, k + 1)

\* The reorder by name of one row (dbsnp_matching, the merged and the missing
\* table): the cells whose column name is in new_order, stably sorted by the
\* position of that name in new_order. A name of new_order the header lacks
\* contributes no cell.
reorder_by_name(header, r, new_order) == reorder_from(header, r, new_order, 1)

\* The reorder of one row in preformat: one cell per target column, "NA" for a
\* column the header lacks (idx_opt is None).
reorder_preformat(header, r, new_order) ==
    [k \in DOMAIN new_order |->
        IF idx_opt(header, new_order[k]) = 0 THEN "NA"
        ELSE r[idx_opt(header, new_order[k])]]

(***************************************************************************)
(* The allele flip. Both engines write it out in place; a result is        *)
(* [err, c]: err is "" and c the row's cells, or err says which panic.     *)
(***************************************************************************)
\* The cell std::mem::swap exchanges with one[min]: two = r[max..], and the
\* code indexes two[max], which is r[max + max] counted from 0.
swap_target(ref_, alt) == 2 * Max2(alt, ref_) - 1

\* let (one, two) = r.split_at_mut(alt.max(ref_)); swap(&mut one[min], &mut two[max])
swap_alleles(c, ref_, alt) ==
    LET mn == Min2(alt, ref_)
        tg == swap_target(ref_, alt)
    IN  IF tg > Len(c) THEN [err |-> "index out of bounds", c |-> c]
        ELSE [err |-> "", c |-> [c EXCEPT ![mn] = c[tg], ![tg] = c[mn]]]

\* r[effect_size] = (-es).to_string(); r[eaf] = (1.0 - e).to_string()
flip_numbers(c, effect_size, eaf) ==
    LET es == parse_f64(c[effect_size])
        c1 == [c EXCEPT ![effect_size] = to_string(f64_neg(es))]
        e  == parse_f64(c1[eaf])
    IN  IF es = ParseErr THEN [err |-> "effect_size: ParseFloatError", c |-> c]
        ELSE IF e = ParseErr THEN [err |-> "EAF: ParseFloatError", c |-> c1]
        ELSE [err |-> "", c |-> [c1 EXCEPT ![eaf] = to_string(f64_one_minus(e))]]

\* format!("{}_{}_{}_{}", r[idxs[0]], r[idxs[1]], r[idxs[2]], r[idxs[3]])
unique_id_of(c, idxs) ==
    c[idxs[1]] \o "_" \o c[idxs[2]] \o "_" \o c[idxs[3]] \o "_" \o c[idxs[4]]

\* The flip of the join engine (dbsnp_matching, lines 812-826); the row's last
\* cell is its unique_id, recomputed after the flip.
flip_join(c, ref_, alt, effect_size, eaf, idxs) ==
    LET s == swap_alleles(c, ref_, alt)
        n == flip_numbers(s.c, effect_size, eaf)
    IN  IF s.err # "" THEN s
        ELSE IF n.err # "" THEN n
        ELSE [err |-> "", c |-> [n.c EXCEPT ![Len(n.c)] = unique_id_of(n.c, idxs)]]

\* The flip of the lookup engine (ref_alt_check, lines 1071-1078).
flip_lookup(c, ref_, alt, effect_size, eaf) ==
    LET s == swap_alleles(c, ref_, alt)
    IN  IF s.err # "" THEN s ELSE flip_numbers(s.c, effect_size, eaf)

(***************************************************************************)
(* The join engine: dbsnp_matching.                                        *)
(***************************************************************************)
\* preformat's new_order, chr and pos renamed for the source build hg19.
PreformatHeader ==
    <<"chr_hg19", "pos_hg19", "ref", "alt", "EAF", "effect_size", "standard_error",
      "pvalue", "pvalue_het", "N_total", "N_case", "N_ctrl">>

CoordCols == <<"chr_hg19", "pos_hg19", "chr_hg38", "pos_hg38">>

new_headers ==
    <<"chr_hg19", "pos_hg19", "ref", "alt", "effect_size", "standard_error", "EAF",
      "pvalue", "pvalue_het", "N_total", "N_case", "N_ctrl", "chr_hg38", "pos_hg38">>

new_order ==
    <<"rsid", "unique_id", "chr_hg19", "pos_hg19", "ref", "alt", "effect_size",
      "standard_error", "EAF", "pvalue", "pvalue_het", "N_total", "N_case", "N_ctrl",
      "chr_hg38", "pos_hg38", "gnomAD_AF_EUR", "gnomAD_AF_AMR", "gnomAD_AF_AFR",
      "gnomAD_AF_EAS", "gnomAD_AF_SAS">>

DbsnpKeyCols == <<"chr", "pos_hg19", "ref", "alt", "pos_hg38">>

EmptyTable == [header |-> << >>, data |-> << >>]

\* std::mem::take(&mut t.data): the data moved out, and the table left behind.
mem_take(t) == [value |-> t.data, left |-> [t EXCEPT !.data = << >>]]

\* Lines 606-630: the four coordinate columns, from the bed records at the
\* row's own position (hg19.get(i), hg38.get(i)) or "NA".
attach_bed(raw, bed19, bed38) ==
    [header |-> raw.header \o CoordCols,
     data |-> [i \in DOMAIN raw.data |->
        [src |-> raw.data[i].src,
         c |-> raw.data[i].c
               \o (IF i <= Len(bed19) THEN <<bed19[i][1], bed19[i][3]>> ELSE <<"NA", "NA">>)
               \o (IF i <= Len(bed38) THEN <<bed38[i][1], bed38[i][3]>> ELSE <<"NA", "NA">>)]]]

\* The places of the columns named in names (0 where Data::idx would panic).
idxs_of(header, names) == [k \in DOMAIN names |-> idx_opt(header, names[k])]

\* Lines 651-675: the first reorder, to new_headers.
first_reorder(t) ==
    LET order == idxs_of(t.header, new_headers)
    IN  [header |-> new_headers,
         data |-> [i \in DOMAIN t.data |->
                     [src |-> t.data[i].src, c |-> reorder_by_idx(t.data[i].c, order)]]]

\* The catalog's columns that are not key columns, in header order.
extra_idxs(cat, dbsnp_idxs) ==
    SeqFilter([i \in DOMAIN cat.header |-> i],
              {i \in DOMAIN cat.header : ~InSeq(i, dbsnp_idxs)}, 1)

extra_names(cat, dbsnp_idxs) ==
    LET e == extra_idxs(cat, dbsnp_idxs) IN [k \in DOMAIN e |-> cat.header[e[k]]]

key_of(c, idxs) == [k \in DOMAIN idxs |-> c[idxs[k]]]

\* dbsnp_map.get(&key): the catalog row under the key (the last one inserted), or << >>.
dbsnp_get(cat, dbsnp_idxs, key) ==
    LET hits == {j \in DOMAIN cat.data : key_of(cat.data[j], dbsnp_idxs) = key}
    IN  IF hits = {} THEN << >>
        ELSE cat.data[CHOOSE j \in hits : \A h \in hits : h <= j]

RECURSIVE probe(_, _, _, _, _, _)
\* Lines 746-769 and 773-796: the rows of data whose key (read at key_idxs) is in
\* the catalog, each with the catalog's extra cells and its unique_id (read at
\* raw_data_idxs) appended. Rows without a hit are dropped.
probe(data, key_idxs, raw_data_idxs, cat, dbsnp_idxs, k) ==
    IF k > Len(data) THEN << >>
    ELSE LET r == data[k]
             hit == dbsnp_get(cat, dbsnp_idxs, key_of(r.c, key_idxs))
             ex == extra_idxs(cat, dbsnp_idxs)
             rest == probe(data, key_idxs, raw_data_idxs, cat, dbsnp_idxs, k + 1)
         IN  IF hit = << >> THEN rest
             ELSE <<[src |-> r.src,
                     c |-> r.c \o [e \in DOMAIN ex |-> hit[ex[e]]]
                               \o <<unique_id_of(r.c, raw_data_idxs)>>]>> \o rest

\* A retain that keeps the last row of each unique_id.
dedup_last(data, unique_id_idx) ==
    SeqFilter(data,
              {i \in DOMAIN data :
                  \A j \in (i + 1)..Len(data) : data[j].c[unique_id_idx] # data[i].c[unique_id_idx]},
              1)

\* Lines 828-831: retain the first row of each unique_id.
dedup(data, unique_id_idx) ==
    SeqFilter(data,
              {i \in DOMAIN data :
                  \A j \in 1..(i - 1) : data[j].c[unique_id_idx] # data[i].c[unique_id_idx]},
              1)

\* The 4-field keys of the matched rows as they are only.
raw_unique_ids_own(data, raw_data_idxs) ==
    {key_of(data[i].c, <<raw_data_idxs[1], raw_data_idxs[2], raw_data_idxs[3], raw_data_idxs[4]>>) :
        i \in DOMAIN data}

\* Lines 857-877: the 4-field keys of the matched rows, as they are and with
\* ref and alt exchanged.
raw_unique_ids_of(data, raw_data_idxs) ==
    {key_of(data[i].c, <<raw_data_idxs[1], raw_data_idxs[2], raw_data_idxs[3], raw_data_idxs[4]>>) :
        i \in DOMAIN data}
    \cup
    {key_of(data[i].c, <<raw_data_idxs[1], raw_data_idxs[2], raw_data_idxs[4], raw_data_idxs[3]>>) :
        i \in DOMAIN data}

\* A filter that keeps every row with both positions, matched or not.
missing_filter_all(data, raw_unique_ids, raw_data_idxs, pos_hg19, pos_hg38) ==
    SeqFilter(data,
              {i \in DOMAIN data :
                  /\ data[i].c[pos_hg19] \notin {"NA", "NaN"}
                  /\ data[i].c[pos_hg38] \notin {"NA", "NaN"}},
              1)

\* Lines 882-896: the rows of the input that are missing.
missing_filter(data, raw_unique_ids, raw_data_idxs, pos_hg19, pos_hg38) ==
    SeqFilter(data,
              {i \in DOMAIN data :
                  /\ key_of(data[i].c, SubSeq(raw_data_idxs, 1, 4)) \notin raw_unique_ids
                  /\ data[i].c[pos_hg19] # "NA"
                  /\ data[i].c[pos_hg38] # "NA"
                  /\ data[i].c[pos_hg19] # "NaN"
                  /\ data[i].c[pos_hg38] # "NaN"},
              1)

\* Lines 917-936 and 962-981: the table reordered to new_order, row by row.
reorder_table(t) ==
    [header |-> new_order,
     data |-> [i \in DOMAIN t.data |->
                 [src |-> t.data[i].src,
                  c |-> reorder_by_name(t.header, t.data[i].c, new_order)]]]

\* Lines 937-956: the missing rows get "NA" for every extra catalog column, and
\* their unique_id.
pad_missing(data, n_extra, raw_data_idxs) ==
    [i \in DOMAIN data |->
        [src |-> data[i].src,
         c |-> data[i].c \o [e \in 1..n_extra |-> "NA"]
                         \o <<unique_id_of(data[i].c, raw_data_idxs)>>]]

\* assert_eq!(t.header.len(), t.data[0].len()): "" when it passes.
assert_first_row(t, what) ==
    IF Len(t.data) = 0 THEN what \o ".data[0]: index out of bounds"
    ELSE IF Len(t.header) # Len(t.data[1].c) THEN what \o ": assert_eq header.len() data[0].len()"
    ELSE ""

FirstErr(errs) ==
    IF \E i \in DOMAIN errs : errs[i] # ""
    THEN errs[CHOOSE i \in DOMAIN errs : errs[i] # "" /\ \A j \in 1..(i - 1) : errs[j] = ""]
    ELSE ""

\* The key columns of the input with ref and alt in the wrong places.
RawKeyColsSwapped == <<"chr_hg19", "pos_hg19", "alt", "ref", "pos_hg38">>

\* Lines 718-731: raw_data_idxs, the key columns of the input.
RawKeyCols == <<"chr_hg19", "pos_hg19", "ref", "alt", "pos_hg38">>

FlippedKeyCols == <<"chr_hg19", "pos_hg19", "alt", "ref", "pos_hg38">>

\* Line 742: raw_data_flipped = raw_data_merged.clone(), taken after line 733
\* moved raw_data_merged.data out: the clone holds the header and no rows.
clone_for_flipped(raw_data_merged_now) == raw_data_merged_now

\* Lines 804-826: the flipped candidates whose unique_id no direct hit has,
\* each flipped; a row is [src, c, err].
flip_candidates(data, unique_ids, unique_id_idx, header, raw_data_idxs) ==
    LET kept == SeqFilter(data, {i \in DOMAIN data : data[i].c[unique_id_idx] \notin unique_ids}, 1)
    IN  [i \in DOMAIN kept |->
            LET f == flip_join(kept[i].c, idx_opt(header, "ref"), idx_opt(header, "alt"),
                               idx_opt(header, "effect_size"), idx_opt(header, "EAF"),
                               raw_data_idxs)
            IN  [src |-> kept[i].src, c |-> f.c, err |-> f.err]]

\* The one element of a singleton set. Only({f(x) : x \in {e}}) is f(e) with e
\* evaluated once.
Only(S) == CHOOSE x \in S : TRUE

\* Lines 897-989: the matched table reordered, the missing rows padded and
\* reordered, the three assertions on the first rows.
finish_tables(t, cat, dbsnp_idxs, raw_data_idxs, merged_header, combined, missing_rows) ==
    Only({[err |-> FirstErr(<<assert_first_row(missing_padded, "raw_data_missing"),
                              assert_first_row(merged_out, "raw_data_merged"),
                              assert_first_row(missing_out, "raw_data_missing")>>),
           merged |-> merged_out,
           missing |-> missing_out] :
          merged_out \in {reorder_table([header |-> merged_header, data |-> combined])},
          missing_padded \in {[header |-> merged_header,
                               data |-> pad_missing(missing_rows,
                                                    Len(extra_idxs(cat, dbsnp_idxs)),
                                                    raw_data_idxs)]},
          missing_out \in {reorder_table(
                              [header |-> merged_header,
                               data |-> pad_missing(missing_rows,
                                                    Len(extra_idxs(cat, dbsnp_idxs)),
                                                    raw_data_idxs)])}})

\* Lines 827-896: the flipped rows appended to the direct hits, the table
\* deduplicated, the missing rows of the input selected.
complement(t, cat, dbsnp_idxs, raw_data_idxs, merged_header, direct, flipped) ==
    Only({finish_tables(t, cat, dbsnp_idxs, raw_data_idxs, merged_header, combined,
                        missing_filter(t.data, raw_unique_ids_of(combined, raw_data_idxs),
                                       raw_data_idxs, idx_opt(t.header, "pos_hg19"),
                                       idx_opt(t.header, "pos_hg38"))) :
          combined \in {dedup(direct \o [i \in DOMAIN flipped |->
                                            [src |-> flipped[i].src, c |-> flipped[i].c]],
                              idx_opt(merged_header, "unique_id"))}})

\* Lines 797-826: the unique_ids of the direct hits, and the flipped candidates
\* none of them has, flipped.
reconcile(t, cat, dbsnp_idxs, raw_data_idxs, merged_header, direct, flipped_hits) ==
    Only({IF FirstErr([i \in DOMAIN flipped |-> flipped[i].err]) # ""
          THEN [err |-> FirstErr([i \in DOMAIN flipped |-> flipped[i].err]),
                merged |-> EmptyTable, missing |-> EmptyTable]
          ELSE complement(t, cat, dbsnp_idxs, raw_data_idxs, merged_header, direct, flipped) :
          flipped \in {flip_candidates(flipped_hits,
                                       {direct[i].c[idx_opt(merged_header, "unique_id")] :
                                           i \in DOMAIN direct},
                                       idx_opt(merged_header, "unique_id"),
                                       merged_header, raw_data_idxs)}})

\* Lines 732-796: raw_data_merged and raw_data_flipped are set up, and the
\* catalog is probed with each row's key and with each row's flipped key.
probe_both(t, cat, dbsnp_idxs, raw_data_idxs, raw_data_merged_flipped_idxs) ==
    LET taken == mem_take(t)
        merged_header == t.header \o extra_names(cat, dbsnp_idxs) \o <<"unique_id">>
        merged_now == [header |-> merged_header, data |-> taken.left.data]
        flipped_now == clone_for_flipped(merged_now)
    IN  Only({reconcile(t, cat, dbsnp_idxs, raw_data_idxs, merged_header, direct, flipped_hits) :
              direct \in {probe(taken.value, raw_data_idxs, raw_data_idxs, cat, dbsnp_idxs, 1)},
              flipped_hits \in {probe(mem_take(flipped_now).value,
                                      raw_data_merged_flipped_idxs, raw_data_idxs,
                                      cat, dbsnp_idxs, 1)}})

\* Lines 677-731: the catalog is read and the key columns of both tables are resolved.
join_catalog(t, cat) ==
    Only({IF InSeq(0, dbsnp_idxs)
          THEN [err |-> "dbsnp.idx: unwrap on None", merged |-> EmptyTable, missing |-> EmptyTable]
          ELSE probe_both(t, cat, dbsnp_idxs, idxs_of(t.header, RawKeyCols),
                          idxs_of(t.header, FlippedKeyCols)) :
          dbsnp_idxs \in {idxs_of(cat.header, DbsnpKeyCols)}})

\* dbsnp_matching(ctx, raw_data), lines 584-990: [err, merged, missing]; err is ""
\* when it returns, and names the panic otherwise.
dbsnp_matching(raw, bed19, bed38, cat) ==
    Only({IF InSeq(0, idxs_of(attached.header, new_headers))
          THEN [err |-> "raw_data.idx: unwrap on None", merged |-> EmptyTable,
                missing |-> EmptyTable]
          ELSE Only({join_catalog(t, cat) : t \in {first_reorder(attached)}}) :
          attached \in {attach_bed(raw, bed19, bed38)}})

(***************************************************************************)
(* The inputs. An input row is chosen as [chr, pos, ref, alt, eaf, es,     *)
(* lift]: the cells preformat kept, and the hg38 position liftOver gives   *)
(* for the row ("" when it leaves the row out of its output).              *)
(***************************************************************************)
In(pos, ref_, alt, eaf, es, lift) ==
    [chr |-> "1", pos |-> pos, ref |-> ref_, alt |-> alt, eaf |-> eaf, es |-> es, lift |-> lift]

\* The text of pos - 1 (the start of a bed interval).
PosPred(pos) ==
    CASE pos = "100" -> "99"
      [] pos = "200" -> "199"
      [] pos = "300" -> "299"
      [] pos = "400" -> "399"
      [] OTHER -> "0"

\* The table preformat returns for the chosen rows (source build hg19).
raw_data_of(ins) ==
    [header |-> PreformatHeader,
     data |-> [i \in DOMAIN ins |->
        [src |-> i,
         c |-> <<ins[i].chr, ins[i].pos, ins[i].ref, ins[i].alt, ins[i].eaf, ins[i].es,
                 "se", "pv", "ph", "nt", "nc", "nn">>]]]

\* hg19.bed for a source build of hg19: input.bed itself, one record per row,
\* named i + 2 for the row at i counted from 0.
hg19_of(ins) ==
    [i \in DOMAIN ins |-> <<ins[i].chr, PosPred(ins[i].pos), ins[i].pos, ToString(i + 1)>>]

\* hg38.bed: liftOver's output, the records it could convert, in order.
hg38_of(ins) ==
    LET all == [i \in DOMAIN ins |->
                  <<ins[i].chr, PosPred(ins[i].lift), ins[i].lift, ToString(i + 1)>>]
    IN  SeqFilter(all, {i \in DOMAIN ins : ins[i].lift # ""}, 1)

CatHeaderFull ==
    <<"chr", "pos_hg19", "ref", "alt", "pos_hg38", "rsid", "gnomAD_AF_EUR",
      "gnomAD_AF_AMR", "gnomAD_AF_AFR", "gnomAD_AF_EAS", "gnomAD_AF_SAS">>

CatHeaderNoRsid ==
    <<"chr", "pos_hg19", "ref", "alt", "pos_hg38", "gnomAD_AF_EUR",
      "gnomAD_AF_AMR", "gnomAD_AF_AFR", "gnomAD_AF_EAS", "gnomAD_AF_SAS">>

CatHeaderMore == CatHeaderFull \o <<"clinvar">>

\* A catalog entry's row under header: its key cells, and for every other
\* column a text of its own.
CatRow(header, e) ==
    [k \in DOMAIN header |->
        CASE header[k] = "chr" -> e.chr
          [] header[k] = "pos_hg19" -> e.pos
          [] header[k] = "ref" -> e.ref
          [] header[k] = "alt" -> e.alt
          [] header[k] = "pos_hg38" -> e.lift
          [] OTHER -> e.ref \o e.alt \o "." \o header[k]]

Catalog(header, entries) ==
    [header |-> header, data |-> [i \in DOMAIN entries |-> CatRow(header, entries[i])]]

EntryAG == In("100", "A", "G", "", "", "200")

EntryGA == In("100", "G", "A", "", "", "200")

EntryOther == In("300", "A", "G", "", "", "400")

(***************************************************************************)
(* The lookup engine: ref_alt_check.                                       *)
(***************************************************************************)
\* The batch size (5000 in the source, scaled so that several batches occur).
chunk_size == 2

MaxThreads == 2

\* A slot of the results buffer nothing was written to (MaybeUninit::uninit()).
Uninit == "<uninit>"

\* What a read of an uninitialized String may compare equal to.
UninitChoices == {"G", "?"}

\* The sequence lines samtools may print for one query.
LineChoices == {"g", "NN"}

\* str::to_uppercase
to_uppercase(l) ==
    CASE l = "a" -> "A"
      [] l = "c" -> "C"
      [] l = "g" -> "G"
      [] l = "t" -> "T"
      [] l = "n" -> "N"
      [] OTHER -> l

\* Line 999: the query of one missing row.
query_of(c, chr_hg38, pos_hg38) ==
    "chr" \o c[chr_hg38] \o ":" \o c[pos_hg38] \o "-" \o c[pos_hg38]

inputs_of(missing) ==
    [i \in DOMAIN missing.data |->
        query_of(missing.data[i].c, idx_opt(missing.header, "chr_hg38"),
                 idx_opt(missing.header, "pos_hg38"))]

\* Line 1014
chunks_of(num_inputs) == (num_inputs + chunk_size - 1) \div chunk_size

num_inputs == Len(raw_data_missing.data)

chunks == chunks_of(num_inputs)

\* Lines 1027-1028: the first query of batch b counted from 0, and the one after its last.
batch_start(b) == b * chunk_size

batch_end(b) == Min2(batch_start(b) + chunk_size, num_inputs)

\* A read of the counter that stores nothing.
fetch_add_lost(c) == [old |-> c, new |-> c]

\* chunk.fetch_add(1, Ordering::Relaxed): the value read and the value stored.
fetch_add(c) == [old |-> c, new |-> c + 1]

\* samtools' stdout for k records: a ">" header line and a sequence line each.
\* A line is [gt, text]: gt says that it starts with '>'.
Stdouts(k) ==
    {[i \in 1..(2 * k) |->
        IF i % 2 = 1 THEN [gt |-> TRUE, text |-> ">"]
        ELSE [gt |-> FALSE, text |-> seqs[i \div 2]]] : seqs \in [1..k -> LineChoices]}

\* Lines 1042-1047: the bases of the lines that do not start with '>'.
bases_of(stdout) ==
    LET ls == SeqFilter(stdout, {i \in DOMAIN stdout : ~stdout[i].gt}, 1)
    IN  [i \in DOMAIN ls |-> IF Len(ls[i].text) > 1 THEN "N" ELSE to_uppercase(ls[i].text)]

\* A slot that leaves out the start of the batch.
slot_of_no_offset(idx, j) == idx + 1

\* The slot, counted from 1, that the line at idx (from 0) of the batch starting at j is written to.
slot_of(idx, j) == idx + j + 1

\* Lines 1042-1048: nucleotides[idx + j].write(..) for every base, in order;
\* an index past the buffer panics and leaves the writes made before it.
write_back(nuc, j, bases) ==
    LET fits == {idx \in 0..(Len(bases) - 1) : \A i \in 0..idx : slot_of(i, j) <= Len(nuc)}
    IN  [buf |-> [s \in DOMAIN nuc |->
                    IF \E idx \in fits : slot_of(idx, j) = s
                    THEN bases[(CHOOSE idx \in fits : slot_of(idx, j) = s) + 1]
                    ELSE nuc[s]],
         slots |-> {slot_of(idx, j) : idx \in fits},
         oob |-> Cardinality(fits) < Len(bases)]

\* A zip that keeps the flipped rows only.
check_rows_flipped_only(header, data, nuc) ==
    LET kept == SeqFilter(data,
                          {i \in 1..Min2(Len(data), Len(nuc)) :
                              data[i].c[idx_opt(header, "alt")] = nuc[i]}, 1)
    IN  [i \in DOMAIN kept |->
            LET f == flip_lookup(kept[i].c, idx_opt(header, "ref"), idx_opt(header, "alt"),
                                 idx_opt(header, "effect_size"), idx_opt(header, "EAF"))
            IN  [src |-> kept[i].src, c |-> f.c, err |-> f.err]]

\* Lines 1062-1082: each missing row with its nucleotide, flipped when the
\* nucleotide is the row's alt; a row is [src, c, err].
check_rows(header, data, nuc) ==
    [i \in 1..Min2(Len(data), Len(nuc)) |->
        IF data[i].c[idx_opt(header, "alt")] = nuc[i]
        THEN LET f == flip_lookup(data[i].c, idx_opt(header, "ref"), idx_opt(header, "alt"),
                                  idx_opt(header, "effect_size"), idx_opt(header, "EAF"))
             IN  [src |-> data[i].src, c |-> f.c, err |-> f.err]
        ELSE [src |-> data[i].src, c |-> data[i].c, err |-> ""]]

(***************************************************************************)
(* The state machine of main, from the call of dbsnp_matching on.          *)
(***************************************************************************)
MaxRows == 4

MaxJoinRows == 3

MaxFlips == 2

SeqsUpTo(S, n) == UNION {[1..k -> S] : k \in 1..n}

\* Numbers are in units of 2^-FracBits: "8" and "5" are 0.5 and 0.3125 at FracBits = 4.
RowMatch == In("100", "A", "G", "5", "8", "200")

RowSwapped == In("100", "G", "A", "5", "8", "200")

RowOther == In("300", "A", "G", "5", "-3", "400")

RowOtherSwapped == In("300", "G", "A", "+2", "8", "400")

RowOtherNoEaf == In("300", "A", "G", "NA", "8", "400")

RowUnlifted == In("300", "A", "G", "5", "8", "")

RowMatchUnlifted == In("100", "A", "G", "5", "8", "")

\* The rows the join is checked on, and the rows the lookup is checked on.
JoinRows == {RowMatch, RowSwapped, RowOther, RowOtherSwapped, RowOtherNoEaf,
             RowUnlifted, RowMatchUnlifted}

LookupRows == {RowOther, RowOtherSwapped, RowOtherNoEaf}

\* The tables the lookup is checked on: one row the catalog has, then rows it has not.
LookupTables == {<<RowMatch>> \o s : s \in SeqsUpTo(LookupRows, MaxRows - 1)}

JoinCatalogs ==
    {Catalog(CatHeaderFull, <<EntryAG>>),
     Catalog(CatHeaderFull, <<EntryAG, EntryGA>>),
     Catalog(CatHeaderFull, <<EntryAG, EntryOther>>),
     Catalog(CatHeaderFull, << >>),
     Catalog(CatHeaderNoRsid, <<EntryAG>>),
     Catalog(CatHeaderMore, <<EntryAG>>)}

LookupCatalogs == {Catalog(CatHeaderFull, <<EntryAG>>)}

NoRow == [src |-> 0, c |-> << >>]

InitWith(tables, catalogs, threads) ==
    /\ \E ins \in tables :
          /\ raw_data = raw_data_of(ins)
          /\ hg19 = hg19_of(ins)
          /\ hg38 = hg38_of(ins)
    /\ dbsnp \in catalogs
    /\ num_threads \in threads
    /\ pc = "start"
    /\ err = ""
    /\ raw_data_merged = EmptyTable
    /\ raw_data_missing = EmptyTable
    /\ chunk = 0
    /\ worker = << >>
    /\ nucleotides = << >>
    /\ poisoned = FALSE
    /\ invoked = << >>
    /\ pairs = << >>
    /\ final_data = EmptyTable
    /\ written = {}
    /\ row = NoRow
    /\ row0 = NoRow
    /\ engine = ""
    /\ flips = 0

Init == InitWith(LookupTables, LookupCatalogs, 1..MaxThreads)

InitJoin == InitWith(SeqsUpTo(JoinRows, MaxJoinRows), JoinCatalogs, {1})

inputVars == <<raw_data, hg19, hg38, dbsnp, num_threads>>

lookupVars == <<chunk, worker, nucleotides, poisoned, invoked>>

flipVars == <<row, row0, engine, flips>>

\* main, line 1149: let (raw_data_merged, raw_data_missing) = dbsnp_matching(&ctx, raw_data)
DbsnpMatching ==
    /\ pc = "start"
    /\ LET res == dbsnp_matching(raw_data, hg19, hg38, dbsnp)
       IN  IF res.err # ""
           THEN /\ pc' = "panic"
                /\ err' = res.err
                /\ UNCHANGED <<raw_data_merged, raw_data_missing>>
           ELSE /\ pc' = "matched"
                /\ raw_data_merged' = res.merged
                /\ raw_data_missing' = res.missing
                /\ UNCHANGED err
    /\ UNCHANGED <<inputVars, lookupVars, pairs, final_data, written, flipVars>>

\* main, lines 1150-1151: the matched and the missing table are written out.
WriteTables ==
    /\ pc = "matched"
    /\ pc' = "written"
    /\ written' = written \cup {"raw_data_merged.txt.gz", "raw_data_missing.txt.gz"}
    /\ UNCHANGED <<err, inputVars, raw_data_merged, raw_data_missing, lookupVars, pairs,
                   final_data, flipVars>>

\* ref_alt_check, lines 994-1020: the buffer of num_inputs uninitialized slots,
\* the counter at 0, the threads spawned.
StartLookup ==
    /\ pc = "written"
    /\ pc' = "lookup"
    /\ chunk' = 0
    /\ nucleotides' = [i \in 1..num_inputs |-> Uninit]
    /\ worker' = [t \in 1..num_threads |-> [at |-> "fetch", b |-> 0]]
    /\ poisoned' = FALSE
    /\ invoked' = [i \in 1..chunks |-> << >>]
    /\ UNCHANGED <<err, inputVars, raw_data_merged, raw_data_missing, pairs, final_data,
                   written, flipVars>>

\* Lines 1023-1026: a thread claims the next batch index, or leaves the loop.
Fetch(t) ==
    /\ pc = "lookup"
    /\ worker[t].at = "fetch"
    /\ LET f == fetch_add(chunk)
       IN  /\ chunk' = f.new
           /\ worker' = [worker EXCEPT ![t] =
                            IF f.old >= chunks THEN [at |-> "exit", b |-> 0]
                            ELSE [at |-> "run", b |-> f.old]]
    /\ UNCHANGED <<pc, err, inputVars, raw_data_merged, raw_data_missing, nucleotides,
                   poisoned, invoked, pairs, final_data, written, flipVars>>

\* Line 1038: samtools cannot be started: cmd.output().unwrap() panics.
RunCannotStart(t) ==
    /\ pc = "lookup"
    /\ worker[t].at = "run"
    /\ worker' = [worker EXCEPT ![t].at = "panic"]
    /\ invoked' = [invoked EXCEPT ![worker[t].b + 1] =
                      Append(@, [by |-> t, started |-> FALSE, status |-> 0, bases |-> << >>,
                                 slots |-> {}])]
    /\ UNCHANGED <<pc, err, inputVars, raw_data_merged, raw_data_missing, chunk, nucleotides,
                   poisoned, pairs, final_data, written, flipVars>>

\* Lines 1027-1049: samtools runs on the thread's batch and exits with some
\* status, having printed some records: one per query, one fewer or one more.
\* The thread then takes the mutex and writes the bases back.
Run(t) ==
    /\ pc = "lookup"
    /\ worker[t].at = "run"
    /\ LET j == batch_start(worker[t].b)
           n == batch_end(worker[t].b) - j
       IN  \E status \in {0, 1}, k \in {n - 1, n, n + 1} : \E stdout \in Stdouts(k) :
              LET bases == bases_of(stdout)
                  w == write_back(nucleotides, j, bases)
              IN  /\ invoked' = [invoked EXCEPT ![worker[t].b + 1] =
                                    Append(@, [by |-> t, started |-> TRUE, status |-> status,
                                               bases |-> bases,
                                               slots |-> IF poisoned THEN {} ELSE w.slots])]
                  /\ IF poisoned
                     THEN /\ worker' = [worker EXCEPT ![t].at = "panic"]
                          /\ UNCHANGED <<nucleotides, poisoned>>
                     ELSE /\ nucleotides' = w.buf
                          /\ poisoned' = w.oob
                          /\ worker' = [worker EXCEPT ![t].at = IF w.oob THEN "panic" ELSE "fetch"]
    /\ UNCHANGED <<pc, err, inputVars, raw_data_merged, raw_data_missing, chunk, pairs,
                   final_data, written, flipVars>>

\* Line 1053: std::thread::scope returns when every thread has ended, and
\* panics when one of them panicked.
ScopeEnd ==
    /\ pc = "lookup"
    /\ \A t \in DOMAIN worker : worker[t].at \in {"exit", "panic"}
    /\ IF \E t \in DOMAIN worker : worker[t].at = "panic"
       THEN pc' = "panic" /\ err' = "a scoped thread panicked"
       ELSE pc' = "joined" /\ UNCHANGED err
    /\ UNCHANGED <<inputVars, raw_data_merged, raw_data_missing, lookupVars, pairs,
                   final_data, written, flipVars>>

\* Lines 1055-1084: the buffer is read as Vec<String>, zipped with the missing
\* rows, and the rows are appended to the matched table. A slot nothing was
\* written to is read uninitialized: any text.
CheckRows ==
    /\ pc = "joined"
    /\ \E g \in [{i \in DOMAIN nucleotides : nucleotides[i] = Uninit} -> UninitChoices] :
          LET nuc == [i \in DOMAIN nucleotides |->
                        IF nucleotides[i] = Uninit THEN g[i] ELSE nucleotides[i]]
              rows == check_rows(raw_data_merged.header, raw_data_missing.data, nuc)
              e == FirstErr([i \in DOMAIN rows |-> rows[i].err])
          IN  /\ pairs' = [i \in DOMAIN rows |-> <<raw_data_missing.data[i], nuc[i]>>]
              /\ IF e # ""
                 THEN pc' = "panic" /\ err' = e /\ UNCHANGED final_data
                 ELSE /\ pc' = "checked"
                      /\ final_data' =
                            [header |-> raw_data_merged.header,
                             data |-> raw_data_merged.data
                                      \o [i \in DOMAIN rows |-> [src |-> rows[i].src, c |-> rows[i].c]]]
                      /\ UNCHANGED err
    /\ UNCHANGED <<inputVars, raw_data_merged, raw_data_missing, lookupVars, written, flipVars>>

\* The read of an uninitialized String may also end the process.
CheckRowsCrash ==
    /\ pc = "joined"
    /\ \E i \in DOMAIN nucleotides : nucleotides[i] = Uninit
    /\ pc' = "panic"
    /\ err' = "read of an uninitialized String"
    /\ UNCHANGED <<inputVars, raw_data_merged, raw_data_missing, lookupVars, pairs,
                   final_data, written, flipVars>>

\* main, line 1155: final_data.write(&ctx.args.output_file)
WriteFinal ==
    /\ pc = "checked"
    /\ pc' = "done"
    /\ written' = written \cup {"output_file"}
    /\ UNCHANGED <<err, inputVars, raw_data_merged, raw_data_missing, lookupVars, pairs,
                   final_data, flipVars>>

(***************************************************************************)
(* The allele flip on its own: one row in the layout of an engine, flipped *)
(* by that engine's code up to MaxFlips times.                             *)
(***************************************************************************)
\* The header of raw_data_flipped (line 734-740, catalog with rsid and the
\* gnomAD columns) and the header of raw_data_merged in ref_alt_check.
FlipHeader(e) ==
    IF e = "join"
    THEN new_headers \o extra_names(Catalog(CatHeaderFull, << >>),
                                     idxs_of(CatHeaderFull, DbsnpKeyCols))
                     \o <<"unique_id">>
    ELSE new_order

FlipRow(header, ref_, alt, es, eaf) ==
    [k \in DOMAIN header |->
        CASE header[k] = "chr_hg19" -> "1"
          [] header[k] = "pos_hg19" -> "100"
          [] header[k] = "ref" -> ref_
          [] header[k] = "alt" -> alt
          [] header[k] = "effect_size" -> es
          [] header[k] = "EAF" -> eaf
          [] header[k] = "unique_id" -> "1_100_" \o ref_ \o "_" \o alt
          [] OTHER -> "v." \o header[k]]

FlipEffects == {"8", "-3", "+2", "NA", "NaN"}

\* Every frequency in [0, 1] the format represents, and the texts that are no frequency.
FlipEafs == {to_string(v) : v \in {w \in F64Values : w[1] = 1 /\ w[2] <= One}} \cup {"NA", "NaN"}

InitFlip ==
    /\ engine \in {"join", "lookup"}
    /\ \E a \in {<<"A", "G">>, <<"G", "A">>}, es \in FlipEffects, eaf \in FlipEafs :
          row = [src |-> 1, c |-> FlipRow(FlipHeader(engine), a[1], a[2], es, eaf)]
    /\ row0 = row
    /\ flips = 0
    /\ pc = "flip"
    /\ err = ""
    /\ raw_data = EmptyTable
    /\ hg19 = << >>
    /\ hg38 = << >>
    /\ dbsnp = EmptyTable
    /\ num_threads = 1
    /\ raw_data_merged = EmptyTable
    /\ raw_data_missing = EmptyTable
    /\ chunk = 0
    /\ worker = << >>
    /\ nucleotides = << >>
    /\ poisoned = FALSE
    /\ invoked = << >>
    /\ pairs = << >>
    /\ final_data = EmptyTable
    /\ written = {}

\* The outcome f of one flip: the row replaced, or the panic.
Flipped(f) ==
    /\ IF f.err # ""
       THEN pc' = "panic" /\ err' = f.err /\ UNCHANGED <<row, flips>>
       ELSE row' = [row EXCEPT !.c = f.c] /\ flips' = flips + 1 /\ UNCHANGED <<pc, err>>
    /\ UNCHANGED <<inputVars, raw_data_merged, raw_data_missing, lookupVars, pairs,
                   final_data, written, row0, engine>>

\* dbsnp_matching, lines 808-826, on one row of raw_data_flipped.
FlipJoin ==
    /\ pc = "flip"
    /\ engine = "join"
    /\ flips < MaxFlips
    /\ Flipped(flip_join(row.c, idx_opt(FlipHeader("join"), "ref"),
                         idx_opt(FlipHeader("join"), "alt"),
                         idx_opt(FlipHeader("join"), "effect_size"),
                         idx_opt(FlipHeader("join"), "EAF"),
                         idxs_of(FlipHeader("join"), RawKeyCols)))

\* ref_alt_check, lines 1071-1078, on one missing row whose alt is the base.
FlipLookup ==
    /\ pc = "flip"
    /\ engine = "lookup"
    /\ flips < MaxFlips
    /\ Flipped(flip_lookup(row.c, idx_opt(FlipHeader("lookup"), "ref"),
                           idx_opt(FlipHeader("lookup"), "alt"),
                           idx_opt(FlipHeader("lookup"), "effect_size"),
                           idx_opt(FlipHeader("lookup"), "EAF")))

NextFlip == FlipJoin \/ FlipLookup

NextJoin == DbsnpMatching \/ WriteTables

Next ==
    \/ DbsnpMatching
    \/ WriteTables
    \/ StartLookup
    \/ \E t \in DOMAIN worker : Fetch(t) \/ RunCannotStart(t) \/ Run(t)
    \/ ScopeEnd
    \/ CheckRows
    \/ CheckRowsCrash
    \/ WriteFinal

Spec == Init /\ [][Next]_vars

SpecJoin == InitJoin /\ [][NextJoin]_vars

SpecFlip == InitFlip /\ [][NextFlip]_vars

(***************************************************************************)
(* The input rows as dbsnp_matching sees them, for the properties below.   *)
(***************************************************************************)
\* Row i of the input with its four coordinate cells (header PreformatHeader \o CoordCols).
Seen(i) == attach_bed(raw_data, hg19, hg38).data[i].c

SeenCell(i, name) == Seen(i)[idx_opt(PreformatHeader \o CoordCols, name)]

\* The catalog has an entry with this 5-field key.
InCatalog(key) ==
    \E k \in DOMAIN dbsnp.data : key_of(dbsnp.data[k], idxs_of(dbsnp.header, DbsnpKeyCols)) = key

DirectKey(i) ==
    <<SeenCell(i, "chr_hg19"), SeenCell(i, "pos_hg19"), SeenCell(i, "ref"), SeenCell(i, "alt"),
      SeenCell(i, "pos_hg38")>>

FlippedKey(i) ==
    <<SeenCell(i, "chr_hg19"), SeenCell(i, "pos_hg19"), SeenCell(i, "alt"), SeenCell(i, "ref"),
      SeenCell(i, "pos_hg38")>>

\* The rows of table t that come from input row i.
RowsOf(t, i) == {m \in DOMAIN t.data : t.data[m].src = i}

CellOf(t, m, name) == t.data[m].c[idx_opt(t.header, name)]

\* Both cross-build positions of input row i are present.
BothPositions(i) ==
    /\ SeenCell(i, "pos_hg19") \notin {"NA", "NaN"}
    /\ SeenCell(i, "pos_hg38") \notin {"NA", "NaN"}

\* Another input row has the 4-field key of row i, as it is or with ref and alt exchanged.
SharesVariant(i) ==
    \E j \in DOMAIN raw_data.data :
        /\ j # i
        /\ SeenCell(j, "chr_hg19") = SeenCell(i, "chr_hg19")
        /\ SeenCell(j, "pos_hg19") = SeenCell(i, "pos_hg19")
        /\ {SeenCell(j, "ref"), SeenCell(j, "alt")} = {SeenCell(i, "ref"), SeenCell(i, "alt")}

\* C1: when dbsnp_matching has returned, an input row with alleles (A, B),
\* A # B, whose coordinate the catalog holds with (B, A) and not with (A, B),
\* has exactly one row in the matched table, and that row has ref = B,
\* alt = A, the negated effect_size and 1 - EAF.
C1_FlippedRowIsMatched ==
    pc = "matched" =>
        \A i \in DOMAIN raw_data.data :
            (/\ SeenCell(i, "ref") # SeenCell(i, "alt")
             /\ InCatalog(FlippedKey(i))
             /\ ~InCatalog(DirectKey(i)))
            => /\ Cardinality(RowsOf(raw_data_merged, i)) = 1
               /\ \A m \in RowsOf(raw_data_merged, i) :
                     /\ CellOf(raw_data_merged, m, "ref") = SeenCell(i, "alt")
                     /\ CellOf(raw_data_merged, m, "alt") = SeenCell(i, "ref")
                     /\ parse_f64(CellOf(raw_data_merged, m, "effect_size"))
                           = f64_neg(parse_f64(SeenCell(i, "effect_size")))
                     /\ parse_f64(CellOf(raw_data_merged, m, "EAF"))
                           = f64_one_minus(parse_f64(SeenCell(i, "EAF")))

\* C3, as stated: when dbsnp_matching has returned, every input row with both
\* positions present is in exactly one of the matched and the missing table.
C3_ExactlyOneTable ==
    pc = "matched" =>
        \A i \in DOMAIN raw_data.data :
            BothPositions(i) =>
                Cardinality(RowsOf(raw_data_merged, i)) + Cardinality(RowsOf(raw_data_missing, i)) = 1

\* C3, amended: when dbsnp_matching has returned, every input row with both
\* positions present whose 4-field key (chr_hg19, pos_hg19, ref, alt), as it is
\* or with ref and alt exchanged, is the key of no other input row, is once in
\* exactly one of the matched and the missing table; no input row is in both;
\* and a row with both positions that is in neither has the key, as it is or
\* with ref and alt exchanged, of a matched row that came from another input row.
C3_ExactlyOneTableOfDistinctVariants ==
    pc = "matched" =>
        \A i \in DOMAIN raw_data.data :
            /\ (BothPositions(i) /\ ~SharesVariant(i)) =>
                  Cardinality(RowsOf(raw_data_merged, i))
                     + Cardinality(RowsOf(raw_data_missing, i)) = 1
            /\ RowsOf(raw_data_merged, i) = {} \/ RowsOf(raw_data_missing, i) = {}
            /\ (BothPositions(i) /\ RowsOf(raw_data_merged, i) = {}
                    /\ RowsOf(raw_data_missing, i) = {}) =>
                  \E m \in DOMAIN raw_data_merged.data :
                      /\ raw_data_merged.data[m].src # i
                      /\ CellOf(raw_data_merged, m, "chr_hg19") = SeenCell(i, "chr_hg19")
                      /\ CellOf(raw_data_merged, m, "pos_hg19") = SeenCell(i, "pos_hg19")
                      /\ {CellOf(raw_data_merged, m, "ref"), CellOf(raw_data_merged, m, "alt")}
                            = {SeenCell(i, "ref"), SeenCell(i, "alt")}

\* Both cases of C3 in one returned join: a row the catalog has and a row it has not.
C3_Witness ==
    /\ pc = "matched"
    /\ \E i, j \in DOMAIN raw_data.data :
          /\ BothPositions(i) /\ ~SharesVariant(i) /\ RowsOf(raw_data_merged, i) # {}
          /\ BothPositions(j) /\ ~SharesVariant(j) /\ RowsOf(raw_data_missing, j) # {}

\* C2 and C9 are about rows whose effect_size and EAF parse.
Parseable(c, header) ==
    /\ parse_f64(c[idx_opt(header, "effect_size")]) # ParseErr
    /\ parse_f64(c[idx_opt(header, "EAF")]) # ParseErr

\* C2: the flip of either engine, applied to a row whose numbers parse, goes
\* through, and after it the ref cell holds the former alt, the alt cell the
\* former ref, effect_size its negation, EAF 1 - EAF, and every other cell its
\* former text (but for the unique_id of the join engine).
C2_FlipFrame ==
    /\ Parseable(row0.c, FlipHeader(engine)) => pc # "panic"
    /\ flips = 1 =>
          \A k \in DOMAIN row.c :
              LET name == FlipHeader(engine)[k]
              IN  CASE name = "ref" -> row.c[k] = row0.c[idx_opt(FlipHeader(engine), "alt")]
                    [] name = "alt" -> row.c[k] = row0.c[idx_opt(FlipHeader(engine), "ref")]
                    [] name = "effect_size" ->
                          parse_f64(row.c[k]) = f64_neg(parse_f64(row0.c[k]))
                    [] name = "EAF" ->
                          parse_f64(row.c[k]) = f64_one_minus(parse_f64(row0.c[k]))
                    [] name = "unique_id" /\ engine = "join" -> TRUE
                    [] OTHER -> row.c[k] = row0.c[k]

\* C9: the flip of either engine, applied twice to a row whose numbers parse,
\* goes through both times and leaves the row it started from: the same ref
\* and alt, the same effect and frequency values, every other cell the same.
C9_FlipTwiceIsIdentity ==
    /\ Parseable(row0.c, FlipHeader(engine)) => pc # "panic"
    /\ flips = 2 =>
          \A k \in DOMAIN row.c :
              IF FlipHeader(engine)[k] \in {"effect_size", "EAF"}
              THEN parse_f64(row.c[k]) = parse_f64(row0.c[k])
              ELSE row.c[k] = row0.c[k]

\* The lookup phase has ended with thread::scope returning.
Ended == pc \in {"joined", "checked", "done"}

\* ref_alt_check has returned the final table.
Returned == pc \in {"checked", "done"}

\* Every invocation of samtools was started and printed one sequence line per query.
OneLinePerQuery ==
    \A b \in DOMAIN invoked : \A v \in DOMAIN invoked[b] :
        /\ invoked[b][v].started
        /\ Len(invoked[b][v].bases) = batch_end(b - 1) - batch_start(b - 1)

\* C4: in the final table ref_alt_check returns, no two rows have the same
\* unique_id. Stated for the runs in which samtools printed a line for every
\* query, so that no slot of the buffer is read uninitialized.
C4_FinalUniqueIds ==
    (Returned /\ OneLinePerQuery) =>
        \A i, j \in DOMAIN final_data.data :
            i # j => CellOf(final_data, i, "unique_id") # CellOf(final_data, j, "unique_id")

\* The base samtools returned for the i-th query (i from 1).
BaseFor(i) == invoked[((i - 1) \div chunk_size) + 1][1].bases[((i - 1) % chunk_size) + 1]

\* C5: when every invocation returns one base line per query, ref_alt_check
\* pairs the i-th missing row with the base returned for the i-th query, for
\* every number of threads and every interleaving.
C5_PairsInInputOrder ==
    (Returned /\ OneLinePerQuery) =>
        /\ Len(pairs) = num_inputs
        /\ \A i \in DOMAIN pairs : pairs[i] = <<raw_data_missing.data[i], BaseFor(i)>>

\* Two threads took one batch each, the second thread the first batch, and the
\* rows got different bases.
C5_Witness ==
    /\ pc = "done"
    /\ OneLinePerQuery
    /\ num_inputs = 3
    /\ invoked[1][1].by = 2
    /\ invoked[2][1].by = 1
    /\ pairs[1][2] = "G"
    /\ pairs[2][2] = "N"
    /\ pairs[3][2] = "G"

\* The row of the final table that missing row i became.
OutOf(i) == final_data.data[Len(raw_data_merged.data) + i].c

\* C6: a missing row whose base is its alt comes out with ref and alt
\* exchanged, effect_size negated and EAF complemented; a row whose base is
\* its ref or "N" comes out as it went in. Stated for the runs in which
\* samtools printed a line for every query.
C6_LookupReconciliation ==
    (Returned /\ OneLinePerQuery) =>
        \A i \in DOMAIN pairs :
            LET d == pairs[i][1].c
                n == pairs[i][2]
                h == final_data.header
            IN  /\ n = d[idx_opt(h, "alt")] =>
                      /\ OutOf(i)[idx_opt(h, "ref")] = d[idx_opt(h, "alt")]
                      /\ OutOf(i)[idx_opt(h, "alt")] = d[idx_opt(h, "ref")]
                      /\ parse_f64(OutOf(i)[idx_opt(h, "effect_size")])
                            = f64_neg(parse_f64(d[idx_opt(h, "effect_size")]))
                      /\ parse_f64(OutOf(i)[idx_opt(h, "EAF")])
                            = f64_one_minus(parse_f64(d[idx_opt(h, "EAF")]))
                /\ (n # d[idx_opt(h, "alt")] /\ n \in {d[idx_opt(h, "ref")], "N"}) =>
                      OutOf(i) = d

\* An invocation of samtools could not be started, or exited with a status other than 0.
ToolFailed ==
    \E b \in DOMAIN invoked : \E v \in DOMAIN invoked[b] :
        ~invoked[b][v].started \/ invoked[b][v].status # 0

\* C7: once an invocation of the lookup tool has failed, the final table is
\* never written. Stated for the runs in which every invocation was started
\* and printed a line for every query, whatever its exit status.
C7_ToolFailureIsFatal == (ToolFailed /\ OneLinePerQuery) => "output_file" \notin written

\* C8: no batch is ever processed twice, and when the threads have all left
\* the loop and thread::scope returns, every batch index below
\* ceil(N / chunk_size) has been processed by exactly one thread.
C8_EachBatchOnce ==
    /\ \A b \in DOMAIN invoked : Len(invoked[b]) <= 1
    /\ Ended =>
          /\ Len(invoked) = chunks_of(Len(raw_data_missing.data))
          /\ \A b \in DOMAIN invoked : Len(invoked[b]) = 1

\* Two batches, two threads, each thread processed one of them.
C8_Witness ==
    /\ pc = "joined"
    /\ num_threads = 2
    /\ Len(invoked) = 2
    /\ invoked[1][1].by # invoked[2][1].by

\* C10: the reorders of dbsnp_matching go through when a target column is
\* absent: no length assertion fails, and every row of the tables returned
\* has one cell per column of new_order, "NA" in a column no table had.
C10_ReorderPadsAbsentColumns ==
    /\ err \notin {"raw_data_merged: assert_eq header.len() data[0].len()",
                   "raw_data_missing: assert_eq header.len() data[0].len()"}
    /\ pc = "matched" =>
          \A m \in DOMAIN raw_data_merged.data :
              /\ Len(raw_data_merged.data[m].c) = Len(new_order)
              /\ \A k \in DOMAIN new_order :
                    (~InSeq(new_order[k], new_headers \o dbsnp.header \o <<"unique_id">>))
                        => raw_data_merged.data[m].c[k] = "NA"

\* The catalog row the matched row m was joined with.
CatalogRowOf(m) ==
    dbsnp_get(dbsnp, idxs_of(dbsnp.header, DbsnpKeyCols), DirectKey(raw_data_merged.data[m].src))

\* C11: when dbsnp_matching has returned, every catalog column that is not a
\* key column is a column of the matched table, and every matched row holds
\* in it the value of the catalog row it was joined with.
C11_AnnotationsPropagate ==
    pc = "matched" =>
        \A k \in DOMAIN dbsnp.header :
            ~InSeq(dbsnp.header[k], DbsnpKeyCols) =>
                /\ InSeq(dbsnp.header[k], raw_data_merged.header)
                /\ \A m \in DOMAIN raw_data_merged.data :
                      CellOf(raw_data_merged, m, dbsnp.header[k]) = CatalogRowOf(m)[k]

NoTwoAlike(header) == \A i, j \in DOMAIN header : i # j => header[i] # header[j]

\* The header of raw_data after the coordinate columns are appended (line
\* 606), and the header of raw_data_merged after the catalog columns and
\* unique_id are appended (lines 734-740).
HeaderWithCoords == attach_bed(raw_data, hg19, hg38).header

HeaderWithCatalog ==
    new_headers \o extra_names(dbsnp, idxs_of(dbsnp.header, DbsnpKeyCols)) \o <<"unique_id">>

\* C12: when dbsnp_matching returns instead of aborting, no header it built
\* on the way had two columns of the same name: the header preformat
\* returned, the header with the four coordinate columns, the header with the
\* catalog columns and unique_id, and the headers of the tables returned.
C12_UniqueColumnNames ==
    pc = "matched" =>
        /\ NoTwoAlike(raw_data.header)
        /\ NoTwoAlike(HeaderWithCoords)
        /\ NoTwoAlike(HeaderWithCatalog)
        /\ NoTwoAlike(raw_data_merged.header)
        /\ NoTwoAlike(raw_data_missing.header)

\* C13: no flip fails on a cell that is no number, and no row whose
\* effect_size or EAF cell is "NA" or "NaN" is passed through the flip of
\* ref_alt_check (it is passed through it when its base is its alt). Stated
\* for the runs in which samtools printed a line for every query.
C13_NaIsNeverParsed ==
    OneLinePerQuery =>
    /\ err \notin {"effect_size: ParseFloatError", "EAF: ParseFloatError"}
    /\ \A i \in DOMAIN pairs :
          LET d == pairs[i][1].c
              h == raw_data_missing.header
          IN  (d[idx_opt(h, "effect_size")] \in {"NA", "NaN"}
                  \/ d[idx_opt(h, "EAF")] \in {"NA", "NaN"})
              => pairs[i][2] # d[idx_opt(h, "alt")]

\* A row of the matched table has the 4-field key of input row i, as it is or
\* with ref and alt exchanged.
KeyIsMatched(i) ==
    \E m \in DOMAIN raw_data_merged.data :
        /\ CellOf(raw_data_merged, m, "chr_hg19") = SeenCell(i, "chr_hg19")
        /\ CellOf(raw_data_merged, m, "pos_hg19") = SeenCell(i, "pos_hg19")
        /\ \/ /\ CellOf(raw_data_merged, m, "ref") = SeenCell(i, "ref")
              /\ CellOf(raw_data_merged, m, "alt") = SeenCell(i, "alt")
           \/ /\ CellOf(raw_data_merged, m, "ref") = SeenCell(i, "alt")
              /\ CellOf(raw_data_merged, m, "alt") = SeenCell(i, "ref")

\* C14: when dbsnp_matching has returned, an input row is in the missing
\* table exactly when no matched row has its key or its swapped key and both
\* its positions are present; it is there once, with its own cells; and a row
\* without pos_hg38 that the catalog does not have is in neither table.
C14_MissingIsTheComplement ==
    pc = "matched" =>
        \A i \in DOMAIN raw_data.data :
            /\ RowsOf(raw_data_missing, i) # {} <=> (~KeyIsMatched(i) /\ BothPositions(i))
            /\ Cardinality(RowsOf(raw_data_missing, i)) <= 1
            /\ \A m \in RowsOf(raw_data_missing, i) :
                  /\ CellOf(raw_data_missing, m, "ref") = SeenCell(i, "ref")
                  /\ CellOf(raw_data_missing, m, "alt") = SeenCell(i, "alt")
                  /\ CellOf(raw_data_missing, m, "pos_hg38") = SeenCell(i, "pos_hg38")
            /\ (SeenCell(i, "pos_hg38") = "NA" /\ ~InCatalog(DirectKey(i))) =>
                  RowsOf(raw_data_merged, i) = {} /\ RowsOf(raw_data_missing, i) = {}

\* A returned join with a missing row, a row kept out of the missing table by
\* the swapped key of a matched row, and with it the matched row itself.
C14_Witness ==
    /\ pc = "matched"
    /\ \E i, j, k \in DOMAIN raw_data.data :
          /\ RowsOf(raw_data_missing, i) # {}
          /\ RowsOf(raw_data_merged, j) # {}
          /\ k # j /\ BothPositions(k) /\ KeyIsMatched(k)
          /\ SeenCell(k, "ref") = SeenCell(j, "alt")
          /\ RowsOf(raw_data_missing, k) = {}

\* A returned join with a row that has no pos_hg38 and is in neither table.
C14_WitnessDropped ==
    /\ pc = "matched"
    /\ \E k \in DOMAIN raw_data.data :
          /\ SeenCell(k, "pos_hg38") = "NA"
          /\ ~InCatalog(DirectKey(k))
          /\ RowsOf(raw_data_merged, k) = {} /\ RowsOf(raw_data_missing, k) = {}

\* Input row i is a direct hit, and the unique_id it is inserted with; it is a
\* flipped hit, and the unique_id it has once flip-normalized.
IsDirectHit(i) == InCatalog(DirectKey(i))

IsFlippedHit(i) == InCatalog(FlippedKey(i))

DirectId(i) ==
    SeenCell(i, "chr_hg19") \o "_" \o SeenCell(i, "pos_hg19") \o "_" \o SeenCell(i, "ref")
        \o "_" \o SeenCell(i, "alt")

FlippedId(i) ==
    SeenCell(i, "chr_hg19") \o "_" \o SeenCell(i, "pos_hg19") \o "_" \o SeenCell(i, "alt")
        \o "_" \o SeenCell(i, "ref")

MergedSrc(m) == raw_data_merged.data[m].src

MergedId(m) == CellOf(raw_data_merged, m, "unique_id")

OwnSlots(b) == (batch_start(b - 1) + 1)..batch_end(b - 1)

\* C17: whatever samtools prints, every slot written for a batch is one of
\* that batch's own slots, no slot is written for two batches, and no write
\* goes past the buffer (such a write panics with the mutex held).
C17_SlotsAreOwned ==
    /\ ~poisoned
    /\ \A b \in DOMAIN invoked : \A v \in DOMAIN invoked[b] :
          invoked[b][v].slots \subseteq OwnSlots(b)
    /\ \A b, c \in DOMAIN invoked : \A v \in DOMAIN invoked[b] : \A w \in DOMAIN invoked[c] :
          b # c => invoked[b][v].slots \cap invoked[c][w].slots = {}

\* C18: the table ref_alt_check returns is the matched table's rows in their
\* order, followed by one row for each missing row in the missing table's
\* order, flipped or not, under the matched table's header.
C18_FinalIsMatchedThenMissing ==
    Returned =>
        /\ final_data.header = raw_data_merged.header
        /\ Len(final_data.data) = Len(raw_data_merged.data) + Len(raw_data_missing.data)
        /\ \A m \in DOMAIN raw_data_merged.data : final_data.data[m] = raw_data_merged.data[m]
        /\ \A i \in DOMAIN raw_data_missing.data :
              /\ Len(raw_data_merged.data) + i \in DOMAIN final_data.data
              /\ final_data.data[Len(raw_data_merged.data) + i].src = raw_data_missing.data[i].src
              /\ pairs[i][2] # CellOf(raw_data_missing, i, "alt")
                    => OutOf(i) = raw_data_missing.data[i].c

\* A final table was written in which one missing row was flipped and another was not.
C18_Witness ==
    /\ pc = "done"
    /\ \E i, j \in DOMAIN raw_data_missing.data :
          /\ i < j
          /\ pairs[i][2] # CellOf(raw_data_missing, i, "alt")
          /\ pairs[j][2] = CellOf(raw_data_missing, j, "alt")

\* C19: in every row of the final table the unique_id cell is
\* chr_hg19 _ pos_hg19 _ ref _ alt of the row's own cells, for the rows the join
\* flipped and for the rows the lookup flipped. Stated for the runs in which
\* samtools printed a line for every query.
C19_UniqueIdIsOfTheRow ==
    (Returned /\ OneLinePerQuery) =>
        \A m \in DOMAIN final_data.data :
            CellOf(final_data, m, "unique_id")
                = CellOf(final_data, m, "chr_hg19") \o "_" \o CellOf(final_data, m, "pos_hg19")
                    \o "_" \o CellOf(final_data, m, "ref") \o "_" \o CellOf(final_data, m, "alt")

\* C20: dbsnp_matching returns its pair of tables for every input table that
\* has a row, also when no row is matched (the matched table is empty) and when
\* no row is missing (the missing table is empty): it never fails on the first
\* row of a table that has none.
C20_JoinReturnsOnEmptyTables ==
    Len(raw_data.data) > 0 =>
        err \notin {"raw_data_missing.data[0]: index out of bounds",
                    "raw_data_merged.data[0]: index out of bounds"}

\* The coordinates the bed file holds for input row i: the chromosome and the
\* end of the record written with id i + 2 for the row at i counted from 0
\* (lines 506-516), "NA" twice when the file has no record of that id.
ConvertedOf(bed, i) ==
    IF \E k \in DOMAIN bed : bed[k][4] = ToString(i + 1)
    THEN LET k == CHOOSE k \in DOMAIN bed : bed[k][4] = ToString(i + 1)
         IN  <<bed[k][1], bed[k][3]>>
    ELSE <<"NA", "NA">>

\* The coordinate cells of row m of table t.
CoordsOf(t, m, chr_name, pos_name) == <<CellOf(t, m, chr_name), CellOf(t, m, pos_name)>>

\* C21: every row dbsnp_matching returns, matched or missing, holds as
\* chr_hg19/pos_hg19 and chr_hg38/pos_hg38 the converted coordinates of the
\* input row it came from, and "NA" where liftOver left that row out of its
\* output, whichever rows liftOver leaves out.
C21_CoordinatesOfTheSameRow ==
    pc = "matched" =>
        \A t \in {raw_data_merged, raw_data_missing} : \A m \in DOMAIN t.data :
            /\ CoordsOf(t, m, "chr_hg19", "pos_hg19") = ConvertedOf(hg19, t.data[m].src)
            /\ CoordsOf(t, m, "chr_hg38", "pos_hg38") = ConvertedOf(hg38, t.data[m].src)

====
